---- MODULE Spec2Model ----
(***************************************************************************)
(* Model of my-app/components/deployment-tracker.tsx: the React component  *)
(* state (currentUser, userStories, expandedStories, errorMessage), the    *)
(* remote table user_stories, and every asynchronous handler split at its  *)
(* awaits: a request is issued, the store serves it, the continuation of   *)
(* the handler runs on the response.                                       *)
(***************************************************************************)
EXTENDS Integers, Sequences, FiniteSets, Bags, TLC

\* ---------------------------------------------------------------- bounds
MaxOps == 2          \* handler invocations of one run that send a request
MaxTime == 1         \* ticks of the clock in one run
MaxStories == 21     \* stories of the list that is filtered and paged

Users == {"A", "B"}
none == "none"

VARIABLES
    currentUser,      \* useState<SupabaseUser | null>: a user id or none
    userStories,      \* useState<UserStory[]>: the local story cache
    expandedStories,  \* useState<string[]>
    errorMessage,     \* useState('')
    store,            \* rows of the remote table user_stories, in insertion order
    nextId,           \* the store's id generator
    now,              \* the wall clock read by Date.now()
    ops,              \* bag of handler invocations suspended at an await
    started,          \* how many invocations have sent a request so far
    filterNumber,     \* useState(''): the text of the filter input
    currentPage       \* useState(1)

vars == <<currentUser, userStories, expandedStories, errorMessage, store, nextId, now, ops, started,
          filterNumber, currentPage>>

\* ------------------------------------------------------------ sequences
Range(s) == {s[i] : i \in DOMAIN s}

RECURSIVE FilterSeq(_, _)
\* Array.prototype.filter with the predicate given as the set of kept values
FilterSeq(s, keep) ==
    IF s = <<>> THEN <<>>
    ELSE IF Head(s) \in keep THEN <<Head(s)>> \o FilterSeq(Tail(s), keep)
    ELSE FilterSeq(Tail(s), keep)

\* Date.now().toString(): the decimal numeral of the clock value
Digits == <<"0", "1", "2", "3", "4", "5", "6", "7", "8", "9">>
RECURSIVE toString(_)
toString(n) == IF n < 10 THEN Digits[n + 1] ELSE toString(n \div 10) \o Digits[(n % 10) + 1]

\* ------------------------------------------------------------- messages
MsgStoryFields == "Please fill in all required fields for the new user story."
MsgAddStory == "Error adding user story"
MsgRemoveStory == "Error removing user story"
MsgFetchStory == "Error fetching user story"
MsgAddChange == "Error adding change"
MsgRemoveChange == "Error removing change"
MsgDate == "Please select a date for the change."
MsgField == "Please fill in all required fields for Field Change."
MsgLWC == "Please fill in all required fields for LWC Change."
MsgProfile == "Please enter a profile name."
MsgPermission == "Please fill in all required fields for Permission Change."
MsgAuth == "Invalid login credentials"
MsgConfirm == "Check your email for the confirmation link."

\* --------------------------------------------------------------- store
StoreIds == {r.id : r \in Range(store)}
Row(id) == CHOOSE r \in Range(store) : r.id = id

\* .select('*').eq('userId', u)
SelectByUser(u) == SelectSeq(store, LAMBDA r : r.userId = u)
\* an insert that stores the story without its owner
InsertRowUnowned(newStory) ==
    [id |-> nextId, userId |-> none, number |-> newStory.number,
     title |-> newStory.title, description |-> newStory.description,
     date |-> newStory.date, changes |-> newStory.changes]
\* .insert([newStory]).select(): the store generates the id
InsertRow(newStory) ==
    [id |-> nextId, userId |-> newStory.userId, number |-> newStory.number,
     title |-> newStory.title, description |-> newStory.description,
     date |-> newStory.date, changes |-> newStory.changes]
\* .delete().eq('id', id): every matching row goes, none matching is no error
DeleteById(id) == SelectSeq(store, LAMBDA r : r.id # id)
\* a store that merges the entries it does not hold yet instead of replacing
UpdateChangesMerge(id, changes) ==
    [i \in DOMAIN store |->
        IF store[i].id = id
        THEN [store[i] EXCEPT !.changes =
                 @ \o SelectSeq(changes, LAMBDA c : c \notin Range(store[i].changes))]
        ELSE store[i]]
\* .update({ changes }).eq('id', id): every matching row, none matching is no error
UpdateChanges(id, changes) ==
    [i \in DOMAIN store |->
        IF store[i].id = id THEN [store[i] EXCEPT !.changes = changes] ELSE store[i]]

\* ----------------------------------------------------------- invocations
\* One suspended handler: the request it awaits (req, st), the values its
\* closure holds, and the response once the store has served the request.
\* asUser, owner, rows, fresh and top record facts about the run for the
\* properties: who was signed in when the request went out, the owner of the
\* story card the handler was started from, how many rows the store matched,
\* whether no update of the story was served since this invocation's read, and
\* whether this invocation's update is the latest one served for its story.
Idle ==
    [kind |-> "idle", req |-> "", st |-> "", storyId |-> 0, userId |-> none,
     newStory |-> [userId |-> none], changeType |-> "", details |-> [date |-> ""], changeId |-> "",
     data |-> <<>>, updatedChanges |-> <<>>, err |-> FALSE,
     asUser |-> none, owner |-> none, rows |-> 0, fresh |-> FALSE, top |-> FALSE]

Inflight == BagToSet(ops)
Put(o) == ops (+) SetToBag({o})
Replace(o, p) == (ops (-) SetToBag({o})) (+) SetToBag({p})
Drop(o) == ops (-) SetToBag({o})
\* a handler that sends a request is counted when it starts
Start(o) == started < MaxOps /\ ops' = Put(o) /\ started' = started + 1

\* ------------------------------------------------------------------ Init
Init ==
    /\ currentUser = none
    /\ userStories = <<>>
    /\ expandedStories = <<>>
    /\ errorMessage = ""
    /\ store = <<>>
    /\ nextId = 1
    /\ now = 0
    /\ ops = EmptyBag
    /\ started = 0
    /\ filterNumber = ""
    /\ currentPage = 1

\* -------------------------------------------------------- authentication
\* fetchUserStories as started by the effect on [currentUser, fetchUserStories]
FetchRequest(u) ==
    [Idle EXCEPT !.kind = "fetchUserStories", !.req = "select", !.st = "sent",
                 !.userId = u, !.asUser = u]

\* onAuthStateChange callback: setCurrentUser(session?.user ?? null); the
\* effect then starts fetchUserStories when the new currentUser is a user.
onAuthStateChange(u) ==
    /\ currentUser' = u
    /\ IF u # none THEN Start(FetchRequest(u)) ELSE UNCHANGED <<ops, started>>

\* handleAuthentication, submitted from the login form of the anonymous view
handleAuthentication(U) ==
    /\ currentUser = none
    /\ \E isRegistering \in BOOLEAN, ok \in BOOLEAN :
         IF ~ok
         THEN /\ errorMessage' = MsgAuth
              /\ UNCHANGED <<currentUser, ops, started>>
         ELSE IF isRegistering
         THEN /\ errorMessage' = MsgConfirm
              /\ UNCHANGED <<currentUser, ops, started>>
         ELSE /\ \E u \in U : onAuthStateChange(u)
              /\ UNCHANGED errorMessage
    /\ UNCHANGED <<userStories, expandedStories, store, nextId, now, filterNumber, currentPage>>

\* handleLogout, from the Logout button of the signed-in view
handleLogout ==
    /\ currentUser # none
    /\ \E ok \in BOOLEAN :
         IF ok
         THEN onAuthStateChange(none) /\ UNCHANGED errorMessage
         ELSE errorMessage' = MsgAuth /\ UNCHANGED <<currentUser, ops, started>>
    /\ UNCHANGED <<userStories, expandedStories, store, nextId, now, filterNumber, currentPage>>

\* the provider reports a session change on its own: the session expired
\* (none) or its token was refreshed (the same user, a new user object)
SessionEvent ==
    /\ currentUser # none
    /\ \E u \in {none, currentUser} : onAuthStateChange(u)
    /\ UNCHANGED <<userStories, expandedStories, errorMessage, store, nextId, now, filterNumber, currentPage>>

\* -------------------------------------------------------------- the store
\* The store serves one request that is in flight; any request can fail.
ServeSelect(o) ==
    /\ o.req = "select" /\ o.st = "sent"
    /\ \E ok \in BOOLEAN :
         ops' = Replace(o, [o EXCEPT !.st = "replied", !.err = ~ok,
                                     !.data = IF ok THEN SelectByUser(o.userId) ELSE <<>>])
    /\ UNCHANGED <<currentUser, userStories, expandedStories, errorMessage, store, nextId, now, started, filterNumber, currentPage>>

\* a read that answers an empty list, and no error, when no row matches
ServeSelectChangesMaybe(o) ==
    /\ o.req = "selectChanges" /\ o.st = "sent"
    /\ \E ok \in BOOLEAN :
         LET found == ok /\ o.storyId \in StoreIds IN
         ops' = Replace(o, [o EXCEPT !.st = "replied", !.err = ~ok, !.fresh = found,
                                     !.data = IF found THEN Row(o.storyId).changes ELSE <<>>])
    /\ UNCHANGED <<currentUser, userStories, expandedStories, errorMessage, store, nextId, now, started, filterNumber, currentPage>>

\* .select('changes').eq('id', storyId).single(): exactly one row, or an error
ServeSelectChanges(o) ==
    /\ o.req = "selectChanges" /\ o.st = "sent"
    /\ \E ok \in BOOLEAN :
         LET found == ok /\ o.storyId \in StoreIds IN
         ops' = Replace(o, [o EXCEPT !.st = "replied", !.err = ~found, !.fresh = found,
                                     !.data = IF found THEN Row(o.storyId).changes ELSE <<>>])
    /\ UNCHANGED <<currentUser, userStories, expandedStories, errorMessage, store, nextId, now, started, filterNumber, currentPage>>

ServeInsert(o) ==
    /\ o.req = "insert" /\ o.st = "sent"
    /\ \E ok \in BOOLEAN :
         IF ok
         THEN /\ store' = Append(store, InsertRow(o.newStory))
              /\ nextId' = nextId + 1
              /\ ops' = Replace(o, [o EXCEPT !.st = "replied", !.data = <<InsertRow(o.newStory)>>])
         ELSE /\ ops' = Replace(o, [o EXCEPT !.st = "replied", !.err = TRUE])
              /\ UNCHANGED <<store, nextId>>
    /\ UNCHANGED <<currentUser, userStories, expandedStories, errorMessage, now, started, filterNumber, currentPage>>

ServeDelete(o) ==
    /\ o.req = "delete" /\ o.st = "sent"
    /\ \E ok \in BOOLEAN :
         IF ok
         THEN /\ store' = DeleteById(o.storyId)
              /\ ops' = Replace(o, [o EXCEPT !.st = "replied",
                                             !.rows = Len(store) - Len(DeleteById(o.storyId))])
         ELSE /\ ops' = Replace(o, [o EXCEPT !.st = "replied", !.err = TRUE])
              /\ UNCHANGED store
    /\ UNCHANGED <<currentUser, userStories, expandedStories, errorMessage, nextId, now, started, filterNumber, currentPage>>

\* the update of o is now the latest one served for its story
Superseded(o, p) ==
    IF p.storyId = o.storyId THEN [p EXCEPT !.top = FALSE, !.fresh = FALSE] ELSE p

ServeUpdate(o) ==
    /\ o.req = "update" /\ o.st = "sent"
    /\ \E ok \in BOOLEAN :
         IF ok
         THEN /\ store' = UpdateChanges(o.storyId, o.updatedChanges)
              /\ ops' = BagOfAll(LAMBDA p : Superseded(o, p), Drop(o))
                          (+) SetToBag({[o EXCEPT !.st = "replied", !.top = TRUE, !.fresh = FALSE,
                                 !.rows = Cardinality({i \in DOMAIN store : store[i].id = o.storyId})]})
         ELSE /\ ops' = Replace(o, [o EXCEPT !.st = "replied", !.err = TRUE])
              /\ UNCHANGED store
    /\ UNCHANGED <<currentUser, userStories, expandedStories, errorMessage, nextId, now, started, filterNumber, currentPage>>

\* ------------------------------------------------------ fetchUserStories
fetchUserStoriesDone(o) ==
    /\ o.kind = "fetchUserStories" /\ o.st = "replied"
    /\ userStories' = IF o.err THEN userStories ELSE o.data
    /\ ops' = Drop(o)
    /\ UNCHANGED <<currentUser, expandedStories, errorMessage, store, nextId, now, started, filterNumber, currentPage>>

\* ------------------------------------------------------------- the view
storiesPerPage == 10

\* String.prototype.includes
includes(s, q) == \E i \in 1..(Len(s) - Len(q) + 1) : SubSeq(s, i, i + Len(q) - 1) = q

\* a filter that matches the beginning of the number only
matchesNumberPrefix(story, q) ==
    IF q # "" THEN Len(q) <= Len(story.number) /\ SubSeq(story.number, 1, Len(q)) = q ELSE TRUE

\* filterNumber ? story.number.includes(filterNumber) : true
matchesNumber(story, q) == IF q # "" THEN includes(story.number, q) ELSE TRUE

\* userStories.filter(story => matchesNumber), for a list and a filter text
filterStories(stories, q) == SelectSeq(stories, LAMBDA story : matchesNumber(story, q))
filteredStories == filterStories(userStories, filterNumber)

\* a slice that takes the element at position end as well
sliceThrough(s, begin, end) ==
    LET last == IF end + 1 < Len(s) THEN end + 1 ELSE Len(s) IN
    IF begin >= last THEN <<>> ELSE [i \in 1..(last - begin) |-> s[begin + i]]

\* Array.prototype.slice(begin, end) with 0 <= begin <= end: the elements at
\* the 0-based positions begin .. end - 1 that exist
slice(s, begin, end) ==
    LET last == IF end < Len(s) THEN end ELSE Len(s) IN
    IF begin >= last THEN <<>> ELSE [i \in 1..(last - begin) |-> s[begin + i]]

\* indexOfLastStory, indexOfFirstStory and currentStories, for a list and a page
storiesOfPage(stories, page) ==
    LET indexOfLastStory == page * storiesPerPage
        indexOfFirstStory == indexOfLastStory - storiesPerPage
    IN  slice(stories, indexOfFirstStory, indexOfLastStory)
currentStories == storiesOfPage(filteredStories, currentPage)

\* Math.ceil(n / storiesPerPage): the number of page buttons
pageButtons(n) == IF n % storiesPerPage = 0 THEN n \div storiesPerPage ELSE (n \div storiesPerPage) + 1

\* onChange of the filter input
FilterNumbers == {"", "1", "US-2", "S-1", "x"}
setFilterNumber ==
    /\ currentUser # none
    /\ \E q \in FilterNumbers : filterNumber' = q
    /\ UNCHANGED <<currentUser, userStories, expandedStories, errorMessage, store, nextId, now, ops, started, currentPage>>

\* paginate, from one of the page buttons, rendered when the filtered stories
\* do not fit on one page
paginate ==
    /\ currentUser # none
    /\ Len(filteredStories) > storiesPerPage
    /\ \E pageNumber \in 1..pageButtons(Len(filteredStories)) : currentPage' = pageNumber
    /\ UNCHANGED <<currentUser, userStories, expandedStories, errorMessage, store, nextId, now, ops, started, filterNumber>>

\* A story card is rendered in the signed-in view for a story of the current
\* page of the filtered stories.
Rendered(story) == currentUser # none /\ story \in Range(currentStories)
\* its CardContent (ChangeForm, ChangeDisplay) is rendered when it is expanded
Expanded(story) == Rendered(story) /\ story.id \in Range(expandedStories)

toggleStoryExpansion ==
    /\ \E story \in Range(userStories) :
         /\ Rendered(story)
         /\ expandedStories' =
              IF story.id \in Range(expandedStories)
              THEN FilterSeq(expandedStories, Range(expandedStories) \ {story.id})
              ELSE Append(expandedStories, story.id)
    /\ UNCHANGED <<currentUser, userStories, errorMessage, store, nextId, now, ops, started, filterNumber, currentPage>>

\* ----------------------------------------------------------- addUserStory
StoryNumbers == {"", " ", "US-1"}
StoryTitles == {"", "Add field"}
StoryDates == {"", "2024-01-01"}
\* String.prototype.trim on the strings above
trim(s) == IF s = " " THEN "" ELSE s

\* addUserStory with the inputs of the new-story form as given
addUserStoryWith(newStoryNumber, newStoryTitle, newStoryDate) ==
    /\ currentUser # none
    /\   IF trim(newStoryTitle) = "" \/ newStoryDate = "" \/ trim(newStoryNumber) = ""
         THEN /\ errorMessage' = MsgStoryFields
              /\ UNCHANGED <<ops, started>>
         ELSE /\ Start([Idle EXCEPT !.kind = "addUserStory", !.req = "insert", !.st = "sent",
                               !.asUser = currentUser,
                               !.newStory = [userId |-> currentUser, number |-> newStoryNumber,
                                             title |-> newStoryTitle, description |-> "",
                                             date |-> newStoryDate, changes |-> <<>>]])
              /\ UNCHANGED errorMessage
    /\ UNCHANGED <<currentUser, userStories, expandedStories, store, nextId, now, filterNumber, currentPage>>

addUserStory ==
    \E newStoryNumber \in StoryNumbers, newStoryTitle \in StoryTitles, newStoryDate \in StoryDates :
        addUserStoryWith(newStoryNumber, newStoryTitle, newStoryDate)

addUserStoryDone(o) ==
    /\ o.kind = "addUserStory" /\ o.st = "replied"
    /\ IF o.err
       THEN errorMessage' = MsgAddStory /\ UNCHANGED userStories
       ELSE userStories' = Append(userStories, o.data[1]) /\ UNCHANGED errorMessage
    /\ ops' = Drop(o)
    /\ UNCHANGED <<currentUser, expandedStories, store, nextId, now, started, filterNumber, currentPage>>

\* -------------------------------------------------------- removeUserStory
removeUserStory ==
    /\ \E story \in Range(userStories) :
         /\ Rendered(story)
         /\ Start([Idle EXCEPT !.kind = "removeUserStory", !.req = "delete", !.st = "sent",
                        !.storyId = story.id, !.asUser = currentUser, !.owner = story.userId])
    /\ UNCHANGED <<currentUser, userStories, expandedStories, errorMessage, store, nextId, now, filterNumber, currentPage>>

\* a removeUserStory that takes the story out of the cache only when the
\* delete matched a row
removeUserStoryDoneCounted(o) ==
    /\ o.kind = "removeUserStory" /\ o.st = "replied"
    /\ IF o.err
       THEN errorMessage' = MsgRemoveStory /\ UNCHANGED <<userStories, expandedStories>>
       ELSE IF o.rows = 0
       THEN UNCHANGED <<userStories, expandedStories, errorMessage>>
       ELSE /\ userStories' = SelectSeq(userStories, LAMBDA story : story.id # o.storyId)
            /\ expandedStories' = FilterSeq(expandedStories, Range(expandedStories) \ {o.storyId})
            /\ UNCHANGED errorMessage
    /\ ops' = Drop(o)
    /\ UNCHANGED <<currentUser, store, nextId, now, started, filterNumber, currentPage>>

\* a removeUserStory that leaves the expanded-stories list as it is
removeUserStoryDoneExpanded(o) ==
    /\ o.kind = "removeUserStory" /\ o.st = "replied"
    /\ IF o.err
       THEN errorMessage' = MsgRemoveStory /\ UNCHANGED <<userStories, expandedStories>>
       ELSE /\ userStories' = SelectSeq(userStories, LAMBDA story : story.id # o.storyId)
            /\ UNCHANGED <<expandedStories, errorMessage>>
    /\ ops' = Drop(o)
    /\ UNCHANGED <<currentUser, store, nextId, now, started, filterNumber, currentPage>>

removeUserStoryDone(o) ==
    /\ o.kind = "removeUserStory" /\ o.st = "replied"
    /\ IF o.err
       THEN errorMessage' = MsgRemoveStory /\ UNCHANGED <<userStories, expandedStories>>
       ELSE /\ userStories' = SelectSeq(userStories, LAMBDA story : story.id # o.storyId)
            /\ expandedStories' = FilterSeq(expandedStories, Range(expandedStories) \ {o.storyId})
            /\ UNCHANGED errorMessage
    /\ ops' = Drop(o)
    /\ UNCHANGED <<currentUser, store, nextId, now, started, filterNumber, currentPage>>

\* ------------------------------------------------------------ ChangeForm
ChangeTypes == {"Field", "LWC", "Profile", "Permission"}
\* the state of a ChangeForm when Add Change is clicked
BlankForm ==
    [changeType |-> "Field", date |-> "", fieldApiName |-> "", fieldLabel |-> "",
     fieldType |-> "", lwcComponentName |-> "", lwcFileType |-> "", lwcCode |-> "",
     profile |-> "", permissionSet |-> "", permission |-> "",
     readAccess |-> FALSE, writeAccess |-> FALSE, note |-> ""]
FieldForms ==
    {[BlankForm EXCEPT !.changeType = "Field", !.date = d, !.fieldApiName = a,
                       !.fieldLabel = l, !.fieldType = t] :
        d \in {"", "2024-01-02"}, a \in {"", "Foo__c"}, l \in {"", "Foo"}, t \in {"", "Text"}}
LWCForms ==
    {[BlankForm EXCEPT !.changeType = "LWC", !.date = d, !.lwcComponentName = c,
                       !.lwcFileType = t] :
        d \in {"", "2024-01-02"}, c \in {"", "fooCard"}, t \in {"", "js"}}
ProfileForms ==
    {[BlankForm EXCEPT !.changeType = "Profile", !.date = d, !.profile = q] :
        d \in {"", "2024-01-02"}, q \in {"", "Admin"}}
PermissionForms ==
    {[BlankForm EXCEPT !.changeType = "Permission", !.date = d, !.permissionSet = s,
                       !.permission = q, !.readAccess = r] :
        d \in {"", "2024-01-02"}, s \in {"", "Sales"}, q \in {"", "Account"}, r \in BOOLEAN}
Forms == FieldForms \cup LWCForms \cup ProfileForms \cup PermissionForms

\* a validation that forgets the type-specific select (fieldType, fileType)
formErrorLax(f) ==
    IF f.date = "" THEN MsgDate
    ELSE CASE f.changeType = "Field" ->
                IF f.fieldApiName = "" \/ f.fieldLabel = "" THEN MsgField ELSE ""
           [] f.changeType = "LWC" ->
                IF f.lwcComponentName = "" THEN MsgLWC ELSE ""
           [] f.changeType = "Profile" ->
                IF f.profile = "" THEN MsgProfile ELSE ""
           [] f.changeType = "Permission" ->
                IF f.permissionSet = "" \/ f.permission = "" THEN MsgPermission ELSE ""

\* the message handleAddChange sets and returns with, "" when it goes on
formError(f) ==
    IF f.date = "" THEN MsgDate
    ELSE CASE f.changeType = "Field" ->
                IF f.fieldApiName = "" \/ f.fieldLabel = "" \/ f.fieldType = "" THEN MsgField ELSE ""
           [] f.changeType = "LWC" ->
                IF f.lwcComponentName = "" \/ f.lwcFileType = "" THEN MsgLWC ELSE ""
           [] f.changeType = "Profile" ->
                IF f.profile = "" THEN MsgProfile ELSE ""
           [] f.changeType = "Permission" ->
                IF f.permissionSet = "" \/ f.permission = "" THEN MsgPermission ELSE ""

\* details whose access record has write set when the form leaves it unset
changeDetailsWritable(f) ==
    CASE f.changeType = "Field" ->
           [date |-> f.date, apiName |-> f.fieldApiName, label |-> f.fieldLabel,
            fieldType |-> f.fieldType, note |-> f.note]
      [] f.changeType = "LWC" ->
           [date |-> f.date, componentName |-> f.lwcComponentName,
            fileType |-> f.lwcFileType, code |-> f.lwcCode, note |-> f.note]
      [] f.changeType = "Profile" ->
           [date |-> f.date, profile |-> f.profile, note |-> f.note]
      [] f.changeType = "Permission" ->
           [date |-> f.date, permissionSet |-> f.permissionSet, permission |-> f.permission,
            access |-> [read |-> f.readAccess, write |-> TRUE], note |-> f.note]

changeDetails(f) ==
    CASE f.changeType = "Field" ->
           [date |-> f.date, apiName |-> f.fieldApiName, label |-> f.fieldLabel,
            fieldType |-> f.fieldType, note |-> f.note]
      [] f.changeType = "LWC" ->
           [date |-> f.date, componentName |-> f.lwcComponentName,
            fileType |-> f.lwcFileType, code |-> f.lwcCode, note |-> f.note]
      [] f.changeType = "Profile" ->
           [date |-> f.date, profile |-> f.profile, note |-> f.note]
      [] f.changeType = "Permission" ->
           [date |-> f.date, permissionSet |-> f.permissionSet, permission |-> f.permission,
            access |-> [read |-> f.readAccess, write |-> f.writeAccess], note |-> f.note]

\* addChange up to its first await: the read of the story's changes
addChangeStart(story, changeType, details) ==
    Start([Idle EXCEPT !.kind = "addChange", !.req = "selectChanges", !.st = "sent",
                 !.storyId = story.id, !.changeType = changeType, !.details = details,
                 !.asUser = currentUser, !.owner = story.userId])

\* handleAddChange of the ChangeForm of an expanded story card, the form being f
handleAddChangeOn(story, f) ==
    /\ Expanded(story)
    /\ IF formError(f) # ""
       THEN errorMessage' = formError(f) /\ UNCHANGED <<ops, started>>
       ELSE addChangeStart(story, f.changeType, changeDetails(f)) /\ UNCHANGED errorMessage
    /\ UNCHANGED <<currentUser, userStories, expandedStories, store, nextId, now, filterNumber, currentPage>>

handleAddChange(F) == \E story \in Range(userStories), f \in F : handleAddChangeOn(story, f)

\* --------------------------------------------------------------- addChange
\* the new entry put in front of the list read
appendedFront(changes, changeType, details) ==
    <<[id |-> toString(now), type |-> changeType, details |-> details]>> \o changes

\* [...data.changes, { id: Date.now().toString(), type, details }]
appended(changes, changeType, details) ==
    Append(changes, [id |-> toString(now), type |-> changeType, details |-> details])

\* a map that gives the changes to every story of the cache
withChangesAll(stories, storyId, changes) ==
    [i \in DOMAIN stories |-> [stories[i] EXCEPT !.changes = changes]]

\* prevStories.map(story => story.id === storyId ? { ...story, changes } : story)
withChanges(stories, storyId, changes) ==
    [i \in DOMAIN stories |->
        IF stories[i].id = storyId THEN [stories[i] EXCEPT !.changes = changes] ELSE stories[i]]

\* an addChange that sends its read again when the read has failed
addChangeReadRetry(o) ==
    /\ o.kind = "addChange" /\ o.req = "selectChanges" /\ o.st = "replied"
    /\ IF o.err
       THEN /\ ops' = Replace(o, [o EXCEPT !.st = "sent", !.err = FALSE, !.asUser = currentUser])
            /\ UNCHANGED errorMessage
       ELSE /\ ops' = Replace(o, [o EXCEPT !.req = "update", !.st = "sent", !.asUser = currentUser,
                                  !.updatedChanges = appended(o.data, o.changeType, o.details)])
            /\ UNCHANGED errorMessage
    /\ UNCHANGED <<currentUser, userStories, expandedStories, store, nextId, now, started, filterNumber, currentPage>>

\* addChange from the response of the read to its second await, the update
addChangeRead(o) ==
    /\ o.kind = "addChange" /\ o.req = "selectChanges" /\ o.st = "replied"
    /\ IF o.err
       THEN errorMessage' = MsgFetchStory /\ ops' = Drop(o)
       ELSE /\ ops' = Replace(o, [o EXCEPT !.req = "update", !.st = "sent", !.asUser = currentUser,
                                  !.updatedChanges = appended(o.data, o.changeType, o.details)])
            /\ UNCHANGED errorMessage
    /\ UNCHANGED <<currentUser, userStories, expandedStories, store, nextId, now, started, filterNumber, currentPage>>

\* an addChange that updates the cache before it looks at the update's error
addChangeDoneOptimistic(o) ==
    /\ o.kind = "addChange" /\ o.req = "update" /\ o.st = "replied"
    /\ userStories' = withChanges(userStories, o.storyId, o.updatedChanges)
    /\ errorMessage' = IF o.err THEN MsgAddChange ELSE errorMessage
    /\ ops' = Drop(o)
    /\ UNCHANGED <<currentUser, expandedStories, store, nextId, now, started, filterNumber, currentPage>>

\* addChange from the response of the update to its end
addChangeDone(o) ==
    /\ o.kind = "addChange" /\ o.req = "update" /\ o.st = "replied"
    /\ IF o.err
       THEN errorMessage' = MsgAddChange /\ UNCHANGED userStories
       ELSE userStories' = withChanges(userStories, o.storyId, o.updatedChanges)
            /\ UNCHANGED errorMessage
    /\ ops' = Drop(o)
    /\ UNCHANGED <<currentUser, expandedStories, store, nextId, now, started, filterNumber, currentPage>>

\* ------------------------------------------------------------ removeChange
\* a removal by splice(findIndex(...), 1): the first entry of the id goes,
\* and the last entry of the list when none has the id (index -1)
filteredSplice(changes, changeId) ==
    LET hits == {i \in DOMAIN changes : changes[i].id = changeId}
        at == IF hits = {} THEN Len(changes) ELSE CHOOSE i \in hits : \A j \in hits : i <= j
    IN  [i \in 1..(Len(changes) - (IF changes = <<>> THEN 0 ELSE 1)) |->
            IF i < at THEN changes[i] ELSE changes[i + 1]]

\* data.changes.filter(change => change.id !== changeId)
filtered(changes, changeId) == SelectSeq(changes, LAMBDA change : change.id # changeId)

\* removeChange, from the ChangeDisplay of a change of an expanded story card,
\* up to its first await
removeChange ==
    /\ \E story \in Range(userStories) :
         /\ Expanded(story)
         /\ \E change \in Range(story.changes) :
              Start([Idle EXCEPT !.kind = "removeChange", !.req = "selectChanges",
                           !.st = "sent", !.storyId = story.id, !.changeId = change.id,
                           !.asUser = currentUser, !.owner = story.userId])
    /\ UNCHANGED <<currentUser, userStories, expandedStories, errorMessage, store, nextId, now, filterNumber, currentPage>>

removeChangeRead(o) ==
    /\ o.kind = "removeChange" /\ o.req = "selectChanges" /\ o.st = "replied"
    /\ IF o.err
       THEN errorMessage' = MsgFetchStory /\ ops' = Drop(o)
       ELSE /\ ops' = Replace(o, [o EXCEPT !.req = "update", !.st = "sent", !.asUser = currentUser,
                                  !.updatedChanges = filtered(o.data, o.changeId)])
            /\ UNCHANGED errorMessage
    /\ UNCHANGED <<currentUser, userStories, expandedStories, store, nextId, now, started, filterNumber, currentPage>>

removeChangeDone(o) ==
    /\ o.kind = "removeChange" /\ o.req = "update" /\ o.st = "replied"
    /\ IF o.err
       THEN errorMessage' = MsgRemoveChange /\ UNCHANGED userStories
       ELSE userStories' = withChanges(userStories, o.storyId, o.updatedChanges)
            /\ UNCHANGED errorMessage
    /\ ops' = Drop(o)
    /\ UNCHANGED <<currentUser, expandedStories, store, nextId, now, started, filterNumber, currentPage>>

\* the 5 s timer of the errorMessage effect
ClearError ==
    /\ errorMessage # ""
    /\ errorMessage' = ""
    /\ UNCHANGED <<currentUser, userStories, expandedStories, store, nextId, now, ops, started, filterNumber, currentPage>>

\* the clock advances
Tick ==
    /\ now < MaxTime
    /\ now' = now + 1
    /\ UNCHANGED <<currentUser, userStories, expandedStories, errorMessage, store, nextId, ops, started, filterNumber, currentPage>>

\* the store serves a request, a response resumes its handler
StoryRemote ==
    \/ \E o \in Inflight : ServeSelect(o)
    \/ \E o \in Inflight : ServeInsert(o)
    \/ \E o \in Inflight : ServeDelete(o)
    \/ \E o \in Inflight : fetchUserStoriesDone(o)
    \/ \E o \in Inflight : addUserStoryDone(o)
    \/ \E o \in Inflight : removeUserStoryDone(o)

AppendRemote ==
    \/ \E o \in Inflight : ServeSelectChanges(o)
    \/ \E o \in Inflight : ServeUpdate(o)
    \/ \E o \in Inflight : addChangeRead(o)
    \/ \E o \in Inflight : addChangeDone(o)

ChangeLogRemote ==
    \/ AppendRemote
    \/ \E o \in Inflight : removeChangeRead(o)
    \/ \E o \in Inflight : removeChangeDone(o)

Local ==
    \/ toggleStoryExpansion
    \/ ClearError
    \/ Tick

\* Every user, every handler that sends a request or changes the session,
\* the forms of every change type; the filter text stays empty and the
\* first page is shown (setFilterNumber and paginate are steps of NextPage).
Next ==
    \/ handleAuthentication(Users)
    \/ handleLogout
    \/ SessionEvent
    \/ addUserStory
    \/ handleAddChange(Forms)
    \/ removeChange
    \/ removeUserStory
    \/ StoryRemote
    \/ ChangeLogRemote
    \/ Local

Spec == Init /\ [][Next]_vars

\* A session under way: A is signed in, the story A created earlier is in
\* the store and in the cache, its card is expanded, nothing is in flight.
\* Spec reaches this state (sign in as A, add a story, expand it).
Story1 ==
    [id |-> 1, userId |-> "A", number |-> "US-1", title |-> "Add field",
     description |-> "", date |-> "2024-01-01", changes |-> <<>>]
InitSession ==
    /\ currentUser = "A"
    /\ userStories = <<Story1>>
    /\ expandedStories = <<1>>
    /\ errorMessage = ""
    /\ store = <<Story1>>
    /\ nextId = 2
    /\ now = 0
    /\ ops = EmptyBag
    /\ started = 0
    /\ filterNumber = ""
    /\ currentPage = 1

SpecSession == InitSession /\ [][Next]_vars

\* The same session with a caller that serializes: a handler that sends a
\* request is started only when no other is awaiting a response.
Quiet == ops = EmptyBag
NextSerial ==
    \/ Quiet /\ handleAuthentication(Users)
    \/ Quiet /\ handleLogout
    \/ Quiet /\ SessionEvent
    \/ Quiet /\ addUserStory
    \/ Quiet /\ handleAddChange(Forms)
    \/ Quiet /\ removeChange
    \/ Quiet /\ removeUserStory
    \/ StoryRemote
    \/ ChangeLogRemote
    \/ Local

SpecSerial == InitSession /\ [][NextSerial]_vars

\* The session editing change logs only: no sign-in or sign-out, no story
\* added or deleted, the forms of one change type.
NextLog ==
    \/ handleAddChange(ProfileForms)
    \/ removeChange
    \/ ChangeLogRemote
    \/ Local

SpecLog == InitSession /\ [][NextLog]_vars

\* The session appending changes with the forms of every change type; the
\* caller serializes, and a click on Add Change with a form that does not
\* validate is taken at any time.
NextForm ==
    \/ handleAddChange({f \in Forms : Quiet \/ formError(f) # ""})
    \/ AppendRemote
    \/ Local

SpecForm == InitSession /\ [][NextForm]_vars

\* A later moment of that session: the clock has advanced, story 1 holds the
\* two changes A appended (one before the tick, one after), A has created a
\* second story, both cards are expanded, nothing is in flight.
Change0 ==
    [id |-> "0", type |-> "Profile",
     details |-> [date |-> "2024-01-02", profile |-> "Admin", note |-> ""]]
Change1 ==
    [id |-> "1", type |-> "Permission",
     details |-> [date |-> "2024-01-02", permissionSet |-> "Sales", permission |-> "Account",
                  access |-> [read |-> TRUE, write |-> FALSE], note |-> ""]]
Story1Edited == [Story1 EXCEPT !.changes = <<Change0, Change1>>]
Story2 ==
    [id |-> 2, userId |-> "A", number |-> "US-1", title |-> "Add field",
     description |-> "", date |-> "2024-01-01", changes |-> <<>>]
InitEdited ==
    /\ currentUser = "A"
    /\ userStories = <<Story1Edited, Story2>>
    /\ expandedStories = <<1, 2>>
    /\ errorMessage = ""
    /\ store = <<Story1Edited, Story2>>
    /\ nextId = 3
    /\ now = 1
    /\ ops = EmptyBag
    /\ started = 0
    /\ filterNumber = ""
    /\ currentPage = 1

CreateRemote ==
    \/ \E o \in Inflight : ServeInsert(o)
    \/ \E o \in Inflight : addUserStoryDone(o)

DeleteRemote ==
    \/ \E o \in Inflight : ServeDelete(o)
    \/ \E o \in Inflight : removeUserStoryDone(o)

\* The signed-in user edits: changes are appended and removed, stories are
\* deleted, in any interleaving; the clock stands still.
NextEdit ==
    \/ removeUserStory
    \/ handleAddChange(ProfileForms)
    \/ removeChange
    \/ DeleteRemote
    \/ ChangeLogRemote
    \/ ClearError

SpecEdit == InitEdited /\ [][NextEdit]_vars

\* The session creating and deleting stories, in any interleaving.
NextCreate ==
    \/ addUserStory
    \/ removeUserStory
    \/ CreateRemote
    \/ DeleteRemote
    \/ Local

SpecCreate == InitSession /\ [][NextCreate]_vars

\* Every kind of request in that later session: the story list is fetched
\* again when the session is refreshed, stories are created and deleted,
\* changes are appended and removed; the clock stands still.
NextRequests ==
    \/ SessionEvent
    \/ addUserStory
    \/ removeUserStory
    \/ handleAddChange(ProfileForms)
    \/ removeChange
    \/ StoryRemote
    \/ ChangeLogRemote

SpecRequests == InitEdited /\ [][NextRequests]_vars

\* The query view on its own: A is signed in and the cache holds the n
\* stories US-1 .. US-n that A has created, for any n up to MaxStories;
\* the filter text is edited and page buttons are clicked.
StoryOfNumber(i) ==
    [id |-> i, userId |-> "A", number |-> "US-" \o toString(i), title |-> "Add field",
     description |-> "", date |-> "2024-01-01", changes |-> <<>>]
InitPage ==
    /\ currentUser = "A"
    /\ \E n \in 0..MaxStories :
          /\ userStories = [i \in 1..n |-> StoryOfNumber(i)]
          /\ store = [i \in 1..n |-> StoryOfNumber(i)]
          /\ nextId = n + 1
    /\ expandedStories = <<>>
    /\ errorMessage = ""
    /\ now = 0
    /\ ops = EmptyBag
    /\ started = 0
    /\ filterNumber = ""
    /\ currentPage = 1

NextPage ==
    \/ setFilterNumber
    \/ paginate

SpecPage == InitPage /\ [][NextPage]_vars

\* The session clicking Add Change only, with the forms of every change
\* type, valid or not; the caller serializes, the clock stands still.
NextValidate ==
    \/ handleAddChange({f \in Forms : Quiet \/ formError(f) # ""})
    \/ AppendRemote
    \/ ClearError

SpecValidate == InitSession /\ [][NextValidate]_vars

\* ================================================================ claims
ChangeLogKinds == {"addChange", "removeChange"}
HasRead(o) ==
    \/ o.req = "selectChanges" /\ o.st = "replied" /\ ~o.err
    \/ o.req = "update" /\ o.st = "sent"
Written(o) == o.req = "update" /\ o.st = "replied" /\ ~o.err

\* C1: two addChange on one story whose reads are both served before either
\* update (no update of the story served since either read) hold the same
\* list `current`; and once both updates are served without error, the
\* stored changes are `current` followed by the entry of the update served
\* last and by nothing else: the other entry is gone, and neither invocation
\* has an error.
C1_LostUpdate ==
    \A o1 \in Inflight, o2 \in Inflight :
        (o1.kind = "addChange" /\ o2.kind = "addChange" /\ o1.storyId = o2.storyId) =>
            /\ (HasRead(o1) /\ HasRead(o2) /\ o1.fresh /\ o2.fresh) => o1.data = o2.data
            /\ (o1 # o2 /\ Written(o1) /\ Written(o2) /\ o1.data = o2.data /\ o2.top
                  /\ o1.storyId \in StoreIds) =>
                   /\ Row(o1.storyId).changes = o2.updatedChanges
                   /\ Row(o1.storyId).changes =
                        Append(o1.data, o2.updatedChanges[Len(o2.updatedChanges)])
                   /\ Len(Row(o1.storyId).changes) = Len(o1.data) + 1

\* both updates are served, the two new entries differ, one is stored
C1_Witness ==
    \E o1 \in Inflight, o2 \in Inflight :
        /\ o1.kind = "addChange" /\ o2.kind = "addChange" /\ o1.storyId = o2.storyId
        /\ Written(o1) /\ Written(o2) /\ o1.data = o2.data /\ o2.top
        /\ o1.updatedChanges # o2.updatedChanges
        /\ o1.storyId \in StoreIds
        /\ Row(o1.storyId).changes = o2.updatedChanges

\* C2: at most one addChange or removeChange per story is awaiting a response.
C2_Serialized ==
    \A o1 \in Inflight, o2 \in Inflight :
        (o1.kind \in ChangeLogKinds /\ o2.kind \in ChangeLogKinds /\ o1.storyId = o2.storyId) =>
            (o1 = o2 /\ ops[o1] = 1)

\* C3: with nobody signed in the cache is empty, and with a user signed in
\* the cache holds no story of another user.
C3_CacheDiscarded ==
    /\ currentUser = none => userStories = <<>>
    /\ \A story \in Range(userStories) : currentUser # none => story.userId = currentUser

\* C4: every delete and every update in flight was sent by the owner of the
\* story it targets, and every story card shown belongs to the current user.
C4_Ownership ==
    /\ \A o \in Inflight :
          (o.req \in {"delete", "update"} /\ o.st = "sent") => o.owner = o.asUser
    /\ \A story \in Range(userStories) : Rendered(story) => story.userId = currentUser

\* C5: the step that ends an addChange or removeChange on a failed read or a
\* failed update leaves userStories as it is and sets an error message.
C5_FailureKeepsCache ==
    [][\A o \in Inflight :
          (o.kind \in ChangeLogKinds /\ o.st = "replied" /\ o.err /\ ops' = Drop(o)) =>
              /\ userStories' = userStories
              /\ errorMessage' \in {MsgFetchStory, MsgAddChange, MsgRemoveChange}]_vars

\* a failed update has been reported and the cached story is what the store holds
C5_Witness ==
    /\ errorMessage = MsgAddChange
    /\ ops = EmptyBag
    /\ \E story \in Range(userStories) :
          story.id \in StoreIds /\ story.changes = Row(story.id).changes

\* the required fields of each change type, as the claim lists them
C6_Missing(f) ==
    \/ f.date = ""
    \/ f.changeType = "Field" /\ (f.fieldApiName = "" \/ f.fieldLabel = "" \/ f.fieldType = "")
    \/ f.changeType = "LWC" /\ (f.lwcComponentName = "" \/ f.lwcFileType = "")
    \/ f.changeType = "Profile" /\ f.profile = ""
    \/ f.changeType = "Permission" /\ (f.permissionSet = "" \/ f.permission = "")
ValidationMessages == {MsgDate, MsgField, MsgLWC, MsgProfile, MsgPermission}

MissingForms == {f \in Forms : C6_Missing(f)}

\* C6: a click on Add Change with a form that lacks the date or a required
\* field of its type sets a validation message and sends nothing: no
\* invocation is added, store and cache are unchanged. (Stated as: a step
\* either is of that kind, or is no such click.)
C6_ValidationFirst ==
    [][\/ /\ errorMessage' \in ValidationMessages
          /\ UNCHANGED <<ops, started, store, userStories>>
       \/ \A story \in Range(userStories), f \in MissingForms :
              ~handleAddChangeOn(story, f)]_vars

\* a form was rejected for a missing type-specific field and nothing is in flight
C6_Witness ==
    /\ errorMessage \in {MsgField, MsgLWC, MsgProfile, MsgPermission}
    /\ ops = EmptyBag
    /\ \E story \in Range(userStories) : Expanded(story)

ValidForms == {f \in Forms : formError(f) = ""}

\* C7: with nothing in flight, an append to a stored changes list followed
\* by the removal of the id the append created gives the list back.
C7_RoundTrip ==
    Quiet =>
        \A i \in DOMAIN store, f \in ValidForms :
            filtered(appended(store[i].changes, f.changeType, changeDetails(f)), toString(now))
                = store[i].changes

\* C8: no two entries of a stored changes list have the same id.
C8_UniqueIds ==
    \A r \in DOMAIN store :
        \A i \in DOMAIN store[r].changes, j \in DOMAIN store[r].changes :
            i # j => store[r].changes[i].id # store[r].changes[j].id

\* C9: every request in flight was sent while a user was signed in.
C9_SessionGate == \A o \in Inflight : o.st = "sent" => o.asUser # none

\* C10: an update served for a story that is not in the store is answered
\* with an error.
C10_NotFound ==
    \A o \in Inflight : (o.req = "update" /\ o.st = "replied" /\ o.rows = 0) => o.err

\* an invocation without the bookkeeping that the store rewrites in the other
\* invocations of a story when it serves an update
Core(o) == [o EXCEPT !.fresh = FALSE, !.top = FALSE]
ReadFailed(o) == o.kind \in ChangeLogKinds /\ o.req = "selectChanges" /\ o.st = "replied" /\ o.err
ReadOk(o) == o.kind \in ChangeLogKinds /\ o.req = "selectChanges" /\ o.st = "replied" /\ ~o.err

\* C11: a read of the changes of a story that is not in the store is answered
\* with an error; the step that ends an addChange or removeChange on a failed
\* read sends no update and leaves cache and store as they are; and an update
\* is sent only by a step that takes an invocation of the same kind and story
\* from its successfully answered read.
C11_ReadGate ==
    [][/\ \A o \in Inflight :
             /\ (o.req = "selectChanges" /\ o.st = "sent" /\ o.storyId \notin StoreIds) =>
                    \A p \in BagToSet(ops') :
                        (p # o /\ ops' = Replace(o, p)) =>
                            (p.req = "selectChanges" /\ p.st = "replied" /\ p.err)
             /\ (ReadFailed(o) /\ CopiesIn(o, ops') < CopiesIn(o, ops)) =>
                    /\ ops' = Drop(o)
                    /\ userStories' = userStories
                    /\ store' = store
                    /\ errorMessage' = MsgFetchStory
       /\ \A p \in BagToSet(BagOfAll(Core, ops')) :
             (p.req = "update" /\ p.st = "sent"
                 /\ CopiesIn(p, BagOfAll(Core, ops')) > CopiesIn(p, BagOfAll(Core, ops))) =>
                    \E o \in Inflight :
                        /\ ReadOk(o) /\ o.kind = p.kind /\ o.storyId = p.storyId
                        /\ CopiesIn(o, ops') < CopiesIn(o, ops)]_vars

\* the read of a change-log operation on a deleted story has failed, the
\* story is still in the cache
C11_Witness ==
    \E o \in Inflight :
        /\ ReadFailed(o) /\ o.storyId \notin StoreIds
        /\ \E story \in Range(userStories) : story.id = o.storyId /\ story.changes # <<>>

CacheIds == {story.id : story \in Range(userStories)}
DeleteOk(o) == o.kind = "removeUserStory" /\ o.req = "delete" /\ o.st = "replied" /\ ~o.err

\* C12: a delete served for an id that is not in the store leaves the store
\* as it is; after a delete answered without error the id is not in the
\* store; and the step that ends a removeUserStory answered without error
\* leaves the cache without a story of that id, the other stories as they
\* were - the cache as it was when the story had already gone from it - and
\* sets no error message.
C12_IdempotentDelete ==
    [][/\ \A o \in Inflight :
             /\ (o.req = "delete" /\ o.st = "sent" /\ o.storyId \notin StoreIds) =>
                    \A p \in BagToSet(ops') : (p # o /\ ops' = Replace(o, p)) => store' = store
             /\ (DeleteOk(o) /\ CopiesIn(o, ops') < CopiesIn(o, ops)) =>
                    /\ o.storyId \notin CacheIds'
                    /\ userStories' = SelectSeq(userStories, LAMBDA story : story.id # o.storyId)
                    /\ (o.storyId \notin CacheIds => userStories' = userStories)
                    /\ errorMessage' = errorMessage
       /\ \A p \in BagToSet(ops') : DeleteOk(p) => p.storyId \notin StoreIds']_vars

\* a second delete of a story was answered without error after the first
\* had removed the row, and the first has taken the story out of the cache
C12_Witness ==
    \E o \in Inflight :
        /\ DeleteOk(o) /\ o.rows = 0
        /\ o.storyId \notin StoreIds /\ o.storyId \notin CacheIds
        /\ store # <<>> /\ userStories # <<>>

InsertOk(o) == o.kind = "addUserStory" /\ o.req = "insert" /\ o.st = "replied" /\ ~o.err

\* C13: a click on Add User Story with an empty number, title or date sets
\* the validation message and sends nothing, store and cache unchanged; an
\* insert answered without error has added exactly one row at the end of the
\* store, with a new id, the userId of the user who clicked, the fields of
\* the form and no changes, and answers that row; and the step that ends
\* the addUserStory appends exactly that row to the end of the cache.
C13_Create ==
    [][/\ \/ /\ errorMessage' = MsgStoryFields
             /\ UNCHANGED <<ops, started, store, userStories>>
          \/ \A n \in StoryNumbers, t \in StoryTitles, d \in StoryDates :
                 (n = "" \/ t = "" \/ d = "") => ~addUserStoryWith(n, t, d)
       /\ \A o \in Inflight :
             /\ (o.req = "insert" /\ o.st = "sent") =>
                    \A p \in BagToSet(ops') :
                        (p # o /\ ops' = Replace(o, p) /\ ~p.err) =>
                            /\ Len(store') = Len(store) + 1
                            /\ SubSeq(store', 1, Len(store)) = store
                            /\ store'[Len(store')].id \notin StoreIds
                            /\ store'[Len(store')].userId = o.asUser
                            /\ o.asUser # none
                            /\ store'[Len(store')].changes = <<>>
                            /\ store'[Len(store')].number = o.newStory.number
                            /\ store'[Len(store')].title = o.newStory.title
                            /\ store'[Len(store')].date = o.newStory.date
                            /\ p.data = <<store'[Len(store')]>>
             /\ (InsertOk(o) /\ CopiesIn(o, ops') < CopiesIn(o, ops)) =>
                    /\ userStories' = Append(userStories, o.data[1])
                    /\ o.data[1] \in Range(store)]_vars

\* a story was created and is the last of the cache, as the store holds it;
\* after that a click with an empty field was rejected
C13_Witness ==
    /\ Quiet
    /\ errorMessage = MsgStoryFields
    /\ Len(userStories) = 2
    /\ userStories[2] \in Range(store)
    /\ userStories[2].id \notin {Story1.id}
    /\ userStories[2].userId = currentUser

\* C14: when the caller serializes, the update of an addChange that the store
\* answers without error finds the stored list equal to the list the
\* invocation read, and leaves it as that list, entries and order unchanged,
\* followed by exactly one new entry with the type and details given; no
\* other row changes. (Step by step this gives, after n such appends, the
\* initial list followed by the n entries in the order of the appends.)
C14_AppendOrder ==
    [][\A o \in Inflight :
          (o.kind = "addChange" /\ o.req = "update" /\ o.st = "sent") =>
              \A p \in BagToSet(ops') :
                  (p # o /\ ops' = Replace(o, p) /\ ~p.err) =>
                      /\ DOMAIN store' = DOMAIN store
                      /\ \A i \in DOMAIN store :
                            IF store[i].id = o.storyId
                            THEN /\ store[i].changes = o.data
                                 /\ Len(store'[i].changes) = Len(o.data) + 1
                                 /\ SubSeq(store'[i].changes, 1, Len(o.data)) = o.data
                                 /\ store'[i].changes[Len(o.data) + 1].type = o.changeType
                                 /\ store'[i].changes[Len(o.data) + 1].details = o.details
                            ELSE store'[i] = store[i]]_vars

\* two serialized appends are done: the store holds both entries, the
\* earlier one first
C14_Witness ==
    /\ Quiet
    /\ \E i \in DOMAIN store :
          /\ Len(store[i].changes) = 2
          /\ store[i].changes[1].type = "Field" /\ store[i].changes[1].id = "0"
          /\ store[i].changes[2].type = "Permission" /\ store[i].changes[2].id = "1"

NoMatch(o) == \A change \in Range(o.data) : change.id # o.changeId

\* C15: the list a removeChange writes is the list it read when no entry of
\* that list has the given id, and otherwise the list it read without the
\* entries of that id, the others in their order; and once the store has
\* served the update, with no later update of the story, that list is the
\* stored one.
C15_Remove ==
    \A o \in Inflight :
        (o.kind = "removeChange" /\ o.req = "update") =>
            /\ NoMatch(o) => o.updatedChanges = o.data
            /\ o.updatedChanges =
                  FilterSeq(o.data, {change \in Range(o.data) : change.id # o.changeId})
            /\ \A change \in Range(o.updatedChanges) : change.id # o.changeId
            /\ (Written(o) /\ o.top /\ o.storyId \in StoreIds) =>
                  Row(o.storyId).changes = o.updatedChanges

\* a removeChange whose change had already been removed by another one has
\* written back the list it read, which is not empty
C15_Witness ==
    \E o \in Inflight :
        /\ o.kind = "removeChange" /\ Written(o) /\ o.top
        /\ NoMatch(o) /\ o.data # <<>>
        /\ o.storyId \in StoreIds /\ Row(o.storyId).changes = o.data

\* the pages 1 .. k of a list, one after the other
RECURSIVE PagesUpTo(_, _)
PagesUpTo(stories, k) ==
    IF k = 0 THEN <<>> ELSE PagesUpTo(stories, k - 1) \o storiesOfPage(stories, k)

\* how many of n elements lie at the positions (p-1)*10 + 1 .. p*10
SizeOfPage(n, p) ==
    IF n <= (p - 1) * 10 THEN 0 ELSE IF n >= p * 10 THEN 10 ELSE n - (p - 1) * 10

\* C16: for the filtered list of length n, the number of page buttons is the
\* least k with 10 * k >= n; every page p from 1 to one beyond the last is
\* the elements at the 0-based positions (p-1)*10 .. p*10 - 1 that exist; the
\* pages 1 .. k one after the other are the list; the page after the last
\* is empty; and the stories shown are the page currentPage.
C16_Pagination ==
    LET n == Len(filteredStories)
        k == pageButtons(n)
    IN  /\ 10 * k >= n /\ (k > 0 => 10 * (k - 1) < n) /\ k >= 0
        /\ \A p \in 1..(k + 1) :
              /\ Len(storiesOfPage(filteredStories, p)) = SizeOfPage(n, p)
              /\ \A i \in 1..SizeOfPage(n, p) :
                    storiesOfPage(filteredStories, p)[i] = filteredStories[(p - 1) * 10 + i]
        /\ PagesUpTo(filteredStories, k) = filteredStories
        /\ storiesOfPage(filteredStories, k + 1) = <<>>
        /\ Len(currentStories) = SizeOfPage(n, currentPage)
        /\ \A i \in 1..Len(currentStories) :
              currentStories[i] = filteredStories[(currentPage - 1) * 10 + i]

\* 21 stories, the third page is shown and holds the last story only
C16_Witness ==
    /\ Len(filteredStories) = 21
    /\ pageButtons(Len(filteredStories)) = 3
    /\ currentPage = 3
    /\ currentStories = <<userStories[21]>>

\* s contains q: s is some text, then q, then some text
Contains(s, q) ==
    \E i \in 0..Len(s), j \in 0..Len(s) : i <= j /\ j - i = Len(q) /\ SubSeq(s, i + 1, j) = q

\* C17: for every filter text, the empty text keeps every story in order;
\* the filtered list is the stories whose number contains the text, in the
\* order of the cache; and filtering the filtered list again changes nothing.
C17_Filter ==
    /\ filterStories(userStories, "") = userStories
    /\ filteredStories = filterStories(userStories, filterNumber)
    /\ \A q \in FilterNumbers :
          /\ filterStories(userStories, q) =
                FilterSeq(userStories, {story \in Range(userStories) : Contains(story.number, q)})
          /\ filterStories(filterStories(userStories, q), q) = filterStories(userStories, q)

\* of 21 stories the 12 whose number contains "1" are shown, in order
C17_Witness ==
    /\ Len(userStories) = 21
    /\ filterNumber = "1"
    /\ Len(filteredStories) = 12
    /\ filteredStories[1].number = "US-1"
    /\ filteredStories[2].number = "US-10"
    /\ filteredStories[12].number = "US-21"

\* the request a handler of each kind sends first
FirstRequest(p) ==
    /\ p.st = "sent"
    /\ p.req = CASE p.kind = "fetchUserStories" -> "select"
                  [] p.kind = "addUserStory" -> "insert"
                  [] p.kind = "removeUserStory" -> "delete"
                  [] p.kind \in ChangeLogKinds -> "selectChanges"
\* the store answers the request of o
Answered(o, p) == o.st = "sent" /\ p.st = "replied" /\ p.req = o.req
\* o goes from its read, answered without error, to its update
WriteAfterRead(o, p) == ReadOk(o) /\ p.req = "update" /\ p.st = "sent"

\* C18: every step leaves the invocations as they are, or adds one that a
\* caller has just started, sending its first request, or ends one whose
\* request is answered, or moves one on: from a request sent to the same
\* request answered, or from the read answered without error to the update
\* sent. So an invocation sends each of its requests once, a list, create or
\* delete sends one request, and after an error nothing is sent for it.
C18_NoRetry ==
    [][LET b == BagOfAll(Core, ops)
           c == BagOfAll(Core, ops')
       IN  \/ c = b
           \/ \E p \in BagToSet(c) :
                 c = b (+) SetToBag({p}) /\ FirstRequest(p) /\ started' = started + 1
           \/ \E o \in BagToSet(b) :
                 c = b (-) SetToBag({o}) /\ o.st = "replied"
           \/ \E o \in BagToSet(b), p \in BagToSet(c) :
                 /\ c = (b (-) SetToBag({o})) (+) SetToBag({p})
                 /\ p.kind = o.kind /\ p.storyId = o.storyId
                 /\ Answered(o, p) \/ WriteAfterRead(o, p)]_vars

\* two invocations were started and have returned, the later error being a
\* failed update or a failed delete; nothing was stored, nothing is in flight
C18_Witness ==
    /\ Quiet
    /\ started = 2
    /\ errorMessage \in {MsgAddChange, MsgRemoveStory}
    /\ store = <<Story1Edited, Story2>>
    /\ userStories = store

\* the fields of the details of each change type, and those that are required
DetailFields(type) ==
    CASE type = "Field" -> {"date", "apiName", "label", "fieldType", "note"}
      [] type = "LWC" -> {"date", "componentName", "fileType", "code", "note"}
      [] type = "Profile" -> {"date", "profile", "note"}
      [] type = "Permission" -> {"date", "permissionSet", "permission", "access", "note"}
RequiredFields(type) ==
    CASE type = "Field" -> {"date", "apiName", "label", "fieldType"}
      [] type = "LWC" -> {"date", "componentName", "fileType"}
      [] type = "Profile" -> {"date", "profile"}
      [] type = "Permission" -> {"date", "permissionSet", "permission"}
Conforms(change) ==
    /\ change.type \in ChangeTypes
    /\ DOMAIN change.details = DetailFields(change.type)
    /\ \A field \in RequiredFields(change.type) : change.details[field] # ""
    /\ change.type = "Permission" =>
          /\ DOMAIN change.details.access = {"read", "write"}
          /\ change.details.access.read \in BOOLEAN
          /\ change.details.access.write = FALSE

\* C19: every change of every stored story has one of the four types, a
\* details record with exactly the fields of its type, the date and the
\* required fields of the type not empty, and for a Permission change an
\* access record of two booleans, write being false as no form has set it;
\* the same holds of every list an invocation is about to write.
C19_Schema ==
    /\ \A i \in DOMAIN store : \A change \in Range(store[i].changes) : Conforms(change)
    /\ \A o \in Inflight : \A change \in Range(o.updatedChanges) : Conforms(change)

\* a Permission change with read access set and a Field change are stored
C19_Witness ==
    /\ Quiet
    /\ \E i \in DOMAIN store :
          /\ \E change \in Range(store[i].changes) :
                change.type = "Permission" /\ change.details.access = [read |-> TRUE, write |-> FALSE]
          /\ \E change \in Range(store[i].changes) : change.type = "Field"

\* between this state and the next, the rows of a table differ at most in
\* the changes of the rows of story id
OnlyChangesOf(id, rows, rowsNext) ==
    /\ DOMAIN rowsNext = DOMAIN rows
    /\ \A i \in DOMAIN rows :
          IF rows[i].id = id
          THEN rowsNext[i] = [rows[i] EXCEPT !.changes = rowsNext[i].changes]
          ELSE rowsNext[i] = rows[i]

\* C20: every step of an addChange or removeChange on a story - its read
\* served, its update sent, its update served, its end - leaves currentUser,
\* the rows of the store and the stories of the cache, their number and
\* their order as they are, but for the changes of that story.
C20_Frame ==
    [][\A o \in Inflight :
          (o.kind \in ChangeLogKinds /\ CopiesIn(o, ops') < CopiesIn(o, ops)) =>
              /\ currentUser' = currentUser
              /\ OnlyChangesOf(o.storyId, store, store')
              /\ OnlyChangesOf(o.storyId, userStories, userStories')]_vars

\* an append on story 2 is done: store and cache hold story 2 with the new
\* change and nothing else altered, story 1 as it was
C20_Witness ==
    /\ Quiet
    /\ store = userStories
    /\ Len(store) = 2
    /\ store[1] = Story1Edited
    /\ store[2].changes # <<>>
    /\ [store[2] EXCEPT !.changes = <<>>] = Story2

DeleteFailed(o) == o.kind = "removeUserStory" /\ o.req = "delete" /\ o.st = "replied" /\ o.err

\* C21: a delete that the store answers without error has removed, in that
\* one step, every row of the story's id with its changes and no other row,
\* and a delete answered with an error has left the store as it was; the
\* step that ends a removeUserStory answered without error takes the story
\* out of the cache and its id out of the expanded stories, the other
\* stories and ids as they were and in their order; the step that ends one
\* answered with an error leaves cache and expanded stories as they are and
\* sets the error message.
C21_DeleteCascade ==
    [][\A o \in Inflight :
          /\ (o.req = "delete" /\ o.st = "sent") =>
                 \A p \in BagToSet(ops') :
                     (p # o /\ ops' = Replace(o, p)) =>
                         IF p.err THEN store' = store
                         ELSE /\ store' = FilterSeq(store, {r \in Range(store) : r.id # o.storyId})
                              /\ o.storyId \notin StoreIds'
          /\ (DeleteOk(o) /\ CopiesIn(o, ops') < CopiesIn(o, ops)) =>
                 /\ userStories' =
                       FilterSeq(userStories, {story \in Range(userStories) : story.id # o.storyId})
                 /\ expandedStories' =
                       FilterSeq(expandedStories, {id \in Range(expandedStories) : id # o.storyId})
                 /\ o.storyId \notin Range(expandedStories')
          /\ (DeleteFailed(o) /\ CopiesIn(o, ops') < CopiesIn(o, ops)) =>
                 /\ userStories' = userStories
                 /\ expandedStories' = expandedStories
                 /\ errorMessage' = MsgRemoveStory]_vars

\* story 1 with its two changes was deleted and is gone from store, cache
\* and expanded stories, story 2 is as it was; a delete of story 2 has then
\* failed and is reported
C21_Witness ==
    /\ Quiet
    /\ started = 2
    /\ store = <<Story2>>
    /\ userStories = <<Story2>>
    /\ expandedStories = <<2>>
    /\ errorMessage = MsgRemoveStory

\* C22: when no invocation is awaiting a response, every story of the cache
\* that the store holds has in the cache the changes that the store holds.
C22_CacheAgrees ==
    Quiet =>
        \A story \in Range(userStories) :
            story.id \in StoreIds => story.changes = Row(story.id).changes

\* the last page there is: the number of page buttons, and 1 when there is none
LastPage == IF pageButtons(Len(filteredStories)) > 1 THEN pageButtons(Len(filteredStories)) ELSE 1

\* C23: currentPage is a page from 1 to the last page there is, and the
\* page shown is not empty when the filtered list is not empty.
C23_PageInRange ==
    /\ currentPage \in 1..LastPage
    /\ filteredStories # <<>> => currentStories # <<>>
====
